---- MODULE Spec2Model ----
(***************************************************************************)
(* Carbon-aware job scheduler (scheduler.py): the carbon-signal            *)
(* translation, the per-provider schedule decision, and the control loop   *)
(* of main() with its per-VM job and SSH-session lists.                    *)
(*                                                                         *)
(* Conventions.                                                            *)
(*  - Python None is the string "None"; an uncaught Python exception is    *)
(*    the string "IndexError" (policy result) or pc = "crashed" (loop).    *)
(*  - Floats are extended numbers [inf, val]: inf = -1 / 1 is -inf / +inf, *)
(*    inf = 0 is the finite value val. gCO2 values are in units of 1/40,   *)
(*    co2_moer values in units of 1/400000.                                *)
(*  - Time is in hours since add_timestamp(); every job carries the same   *)
(*    "submitted" stamp (line 99-101), which is hour 0.                    *)
(***************************************************************************)
EXTENDS Integers, Sequences, FiniteSets, TLC

VARIABLES
    azure_jobs,       \* pending Azure jobs (list of job records), main() line 296
    aws_jobs,         \* pending AWS jobs, main() line 296
    vm_jobs,          \* vm_name -> list of {job, resource_group_name}, line 299
    vm_clients,       \* vm_name -> list of {job_type, job_name, aws_client}, line 300
    percentiles,      \* this tick's snapshot: list of {region, percentile}, line 320
    co2_moers,        \* this tick's normalized metrics, line 321
    instance_id,      \* local of main(), set at line 373, read at lines 429-432
    aws_region_client,\* local of main(), set at lines 367-370, read at line 431
    now,              \* datetime.now() in hours since submission
    pc,               \* position of main(): fetch, azure, aws, sweep, check, done,
                      \* crashed (uncaught exception); "policy" under PolicySpec
    vm_up,            \* provider side: vm_name -> TRUE after a start, FALSE after a stop
    calls,            \* external calls issued during the current tick, in order
    placed,           \* job_name -> number of times the job was appended to a VM list
    tick_start,       \* what held when the current tick began
    pjob,             \* policy harness: the job handed to the decision
    presult,          \* policy harness: the decision's return value
    not_ok_region     \* the region whose get_current response was not ok in this
                      \* tick (line 110), None when every response was ok

vars == <<azure_jobs, aws_jobs, vm_jobs, vm_clients, percentiles, co2_moers,
          instance_id, aws_region_client, now, pc, vm_up, calls, placed,
          tick_start, pjob, presult, not_ok_region>>

None == "None"

(***************************************************************************)
(* Region catalogue, lines 21-29 and 55-77.                                *)
(***************************************************************************)
AZURE_LOCATIONS == <<"PJM_ROANOKE", "FR">>
AWS_LOCATIONS == <<"PJM_SOUTHWEST_OH", "SE">>
SHARED_LOCATIONS == <<"CAISO_NORTH", "UK">>

MIN_MAX_GCO2 ==
    << [region |-> "CAISO_NORTH", min |-> 54, max |-> 263],
       [region |-> "UK", min |-> 147, max |-> 319],
       [region |-> "PJM_ROANOKE", min |-> 360, max |-> 432],
       [region |-> "PJM_SOUTHWEST_OH", min |-> 360, max |-> 432],
       [region |-> "FR", min |-> 17, max |-> 54],
       [region |-> "SE", min |-> 18, max |-> 28] >>

InSeq(x, s) == \E i \in 1..Len(s) : s[i] = x

map_azure_location(location) ==
    CASE location = "CAISO_NORTH" -> "West US"
      [] location = "UK" -> "UK South"
      [] location = "PJM_ROANOKE" -> "East US"
      [] location = "FR" -> "France Central"
      [] OTHER -> None

map_aws_location(location) ==
    CASE location = "CAISO_NORTH" -> "us-west-1"
      [] location = "UK" -> "eu-west-2"
      [] location = "PJM_SOUTHWEST_OH" -> "us-east-2"
      [] location = "SE" -> "eu-north-1"
      [] OTHER -> None

get_gco2_range_for_region(region) ==
    IF \E i \in 1..Len(MIN_MAX_GCO2) : MIN_MAX_GCO2[i].region = region
    THEN LET i == CHOOSE k \in 1..Len(MIN_MAX_GCO2) :
                      /\ MIN_MAX_GCO2[k].region = region
                      /\ \A m \in 1..(k - 1) : MIN_MAX_GCO2[m].region # region
         IN MIN_MAX_GCO2[i]
    ELSE None

(***************************************************************************)
(* Extended numbers.                                                       *)
(***************************************************************************)
Fin(v) == [inf |-> 0, val |-> v]
NegInf == [inf |-> -1, val |-> 0]
PosInf == [inf |-> 1, val |-> 0]
IsFinite(x) == x.inf = 0

\* Python's float "<": false between equal infinities
Less(a, b) ==
    \/ a.inf < b.inf
    \/ a.inf = 0 /\ b.inf = 0 /\ a.val < b.val

(***************************************************************************)
(* Carbon-signal translation, lines 126-151.                               *)
(***************************************************************************)
\* scipy.stats.norm.ppf(percentile / 100), in tenths, at the percentiles the
\* model draws: ppf(0) = -inf, ppf(0.16) = -0.994, ppf(0.5) = 0,
\* ppf(0.84) = 0.994, ppf(1) = +inf
norm_ppf(percentile) ==
    CASE percentile = 0 -> NegInf
      [] percentile = 16 -> Fin(-10)
      [] percentile = 50 -> Fin(0)
      [] percentile = 84 -> Fin(10)
      [] percentile = 100 -> PosInf

\* gco2 = mean + z_score * std_dev with mean = (min + max) / 2 and
\* std_dev = (max - min) / 4; in units of 1/40:
\* 40 * gco2 = 20 * (min + max) + (10 * z_score) * (max - min)
gco2_of(percentile) ==
    LET range == get_gco2_range_for_region(percentile.region)
        z_score == norm_ppf(percentile.percentile)
    IN IF z_score.inf # 0
       THEN [inf |-> z_score.inf, val |-> 0]
       ELSE Fin(20 * (range.min + range.max) + z_score.val * (range.max - range.min))

percentile_to_gco2(ps) ==
    [i \in 1..Len(ps) |-> [region |-> ps[i].region, gco2 |-> gco2_of(ps[i])]]

\* conversion_factor = 2.20462, as 220462 / 100000
conversion_factor_e5 == 220462

\* gco2 * conversion_factor in units of 1/400000, computed in two parts so
\* that the product stays within 32 bits
times_conversion_factor(g) ==
    IF g.inf # 0 THEN g
    ELSE Fin(g.val * (conversion_factor_e5 \div 10)
             + (g.val * (conversion_factor_e5 % 10)) \div 10)

gco2_to_moer(gco2s) ==
    [i \in 1..Len(gco2s) |->
        [region |-> gco2s[i].region, co2_moer |-> times_conversion_factor(gco2s[i].gco2)]]

(***************************************************************************)
(* Region selection helpers, lines 153-187.                                *)
(***************************************************************************)
AzureEligible(region) == InSeq(region, AZURE_LOCATIONS \o SHARED_LOCATIONS)
AwsEligible(region) == InSeq(region, AWS_LOCATIONS \o SHARED_LOCATIONS)

\* the for loop of get_lowest_azure_co2_moer from index i on, with the
\* running lowest_co2_moer
RECURSIVE lowest_azure_from(_, _, _)
lowest_azure_from(moers, i, lowest_co2_moer) ==
    IF i > Len(moers) THEN lowest_co2_moer
    ELSE IF Less(moers[i].co2_moer, lowest_co2_moer.co2_moer)
            /\ AzureEligible(moers[i].region)
         THEN lowest_azure_from(moers, i + 1, moers[i])
         ELSE lowest_azure_from(moers, i + 1, lowest_co2_moer)

\* co2_moers[0] raises IndexError on an empty list
IndexError == [region |-> "IndexError", co2_moer |-> PosInf]

get_lowest_azure_co2_moer(moers) ==
    IF Len(moers) = 0 THEN IndexError
    ELSE lowest_azure_from(moers, 1, moers[1])

RECURSIVE lowest_aws_from(_, _, _)
lowest_aws_from(moers, i, lowest_co2_moer) ==
    IF i > Len(moers) THEN lowest_co2_moer
    ELSE IF Less(moers[i].co2_moer, lowest_co2_moer.co2_moer)
            /\ AwsEligible(moers[i].region)
         THEN lowest_aws_from(moers, i + 1, moers[i])
         ELSE lowest_aws_from(moers, i + 1, lowest_co2_moer)

get_lowest_aws_co2_moer(moers) ==
    IF Len(moers) = 0 THEN IndexError
    ELSE lowest_aws_from(moers, 1, moers[1])

\* a threshold test that leaves equality out
threshold_lt(percentile, threshold) == percentile < threshold

threshold_le(percentile, threshold) == percentile <= threshold

\* a threshold filter that does not look at the provider's regions
get_aws_percentile_threshold_any(ps, threshold) ==
    SelectSeq(ps, LAMBDA p : threshold_le(p.percentile, threshold))

get_azure_percentile_threshold(ps, threshold) ==
    SelectSeq(ps, LAMBDA p : threshold_le(p.percentile, threshold)
                             /\ AzureEligible(p.region))

get_aws_percentile_threshold(ps, threshold) ==
    SelectSeq(ps, LAMBDA p : threshold_le(p.percentile, threshold)
                             /\ AwsEligible(p.region))

(***************************************************************************)
(* Schedule decisions, lines 189-265.                                      *)
(***************************************************************************)
TIMEOUT_HOURS == 12

\* the timeout test with ">" for ">="
timed_out_strictly(job, current_time) ==
    current_time - job.submitted > TIMEOUT_HOURS

\* lines 220-222 and 259-261: difference >= timedelta(hours=12)
timed_out(job, current_time) == current_time - job.submitted >= TIMEOUT_HOURS

\* the test of case 1 with its "not" dropped
is_case1_without_not(job) == job.time_sensitive /\ job.location_switch

\* lines 192 and 231: the test of case 1
is_case1(job) == job.time_sensitive /\ ~job.location_switch

\* lines 219-226: the timeout check that ends both decisions
timeout_or_none(job, current_time) ==
    IF timed_out(job, current_time) THEN job.location ELSE None

azure_schedule_decision(job, ps, moers, current_time) ==
    IF is_case1(job) THEN job.location
    ELSE IF job.time_sensitive /\ job.location_switch
    THEN LET lowest_co2_moer == get_lowest_azure_co2_moer(moers)
         IN IF lowest_co2_moer = IndexError THEN "IndexError"
            ELSE map_azure_location(lowest_co2_moer.region)
    ELSE LET threshold == job.percentile_threshold
             matches == get_azure_percentile_threshold(ps, threshold)
         IN IF ~job.time_sensitive /\ ~job.location_switch
               /\ \E i \in 1..Len(matches) :
                      map_azure_location(matches[i].region) = job.location
            THEN job.location
            ELSE IF ~job.time_sensitive /\ job.location_switch /\ matches # <<>>
            THEN LET matches_c02_moer == gco2_to_moer(percentile_to_gco2(matches))
                     lowest_co2_moer == get_lowest_azure_co2_moer(matches_c02_moer)
                 IN map_azure_location(lowest_co2_moer.region)
            ELSE timeout_or_none(job, current_time)

aws_schedule_decision(job, ps, moers, current_time) ==
    IF is_case1(job) THEN job.location
    ELSE IF job.time_sensitive /\ job.location_switch
    THEN LET lowest_co2_moer == get_lowest_aws_co2_moer(moers)
         IN IF lowest_co2_moer = IndexError THEN "IndexError"
            ELSE map_aws_location(lowest_co2_moer.region)
    ELSE LET threshold == job.percentile_threshold
             matches == get_aws_percentile_threshold(ps, threshold)
         IN IF ~job.time_sensitive /\ ~job.location_switch
               /\ \E i \in 1..Len(matches) :
                      map_aws_location(matches[i].region) = job.location
            THEN job.location
            ELSE IF ~job.time_sensitive /\ job.location_switch /\ matches # <<>>
            THEN LET matches_c02_moer == gco2_to_moer(percentile_to_gco2(matches))
                     lowest_co2_moer == get_lowest_aws_co2_moer(matches_c02_moer)
                 IN map_aws_location(lowest_co2_moer.region)
            ELSE timeout_or_none(job, current_time)

(***************************************************************************)
(* VM lookup and the two per-VM dictionaries, lines 267-291.               *)
(***************************************************************************)
\* "for vm in vms: if vm.location == region: return vm"; both lookups end
\* in None (the AWS one implicitly), here the record NoVm
NoVm == [vm_name |-> None, location |-> None, resource_group_name |-> None]

RECURSIVE vm_by_region_from(_, _, _)
vm_by_region_from(vms, region, i) ==
    IF i > Len(vms) THEN NoVm
    ELSE IF vms[i].location = region THEN vms[i]
         ELSE vm_by_region_from(vms, region, i + 1)

\* a lookup that takes the first VM of the list, whatever its location
get_azure_vm_by_region_first(vms, region) ==
    IF vms = <<>> THEN NoVm ELSE vms[1]

get_azure_vm_by_region(vms, region) == vm_by_region_from(vms, region, 1)
get_aws_vm_by_region(vms, region) == vm_by_region_from(vms, region, 1)

init_job_list(a_vms, w_vms) ==
    [n \in {(a_vms \o w_vms)[i].vm_name : i \in 1..Len(a_vms \o w_vms)} |-> <<>>]

init_ssh_list(a_vms, w_vms) ==
    [n \in {(a_vms \o w_vms)[i].vm_name : i \in 1..Len(a_vms \o w_vms)} |-> <<>>]

\* a loop body that forgets the remove
list_remove_nothing(list, x) == list

\* list.remove(x): drops the first element equal to x
list_remove(list, x) ==
    LET first == CHOOSE i \in 1..Len(list) :
                     list[i] = x /\ \A k \in 1..(i - 1) : list[k] # x
    IN [i \in 1..(Len(list) - 1) |-> IF i < first THEN list[i] ELSE list[i + 1]]

\* a start issued for every assignment
vm_is_idle_always(jobs) == TRUE

\* lines 335 and 374: "if len(vm_jobs[vm_info["vm_name"]]) == 0"
vm_is_idle(jobs) == Len(jobs) = 0

\* lines 415 and 426: "if len(jobs) == 0"
list_is_empty(jobs) == Len(jobs) = 0

\* one external call, as the provider or the VM sees it: occ is the length
\* of vm_jobs[vm] when the call is made, up whether vm is running then,
\* from the VM whose list the loop was handling
Call(op, vm, job, occ, up, from) ==
    [op |-> op, vm |-> vm, job |-> job, occ |-> occ, up |-> up, from |-> from]

(***************************************************************************)
(* The Azure scheduling pass, lines 325-357. st carries the locals and     *)
(* collections of main(); i is the position of the list iterator, which    *)
(* advances by one per iteration whether or not the body removed an        *)
(* element of the list it walks.                                           *)
(***************************************************************************)
azure_assign(st, job, region, a_vms) ==
    LET pending == list_remove(st.pending, job)
        vm_info == get_azure_vm_by_region(a_vms, region)
        name == vm_info.vm_name
    IN IF vm_info = NoVm
       THEN \* vm_info["vm_name"] on None raises TypeError at line 335
            [st EXCEPT !.pending = pending, !.crashed = TRUE]
       ELSE LET idle == vm_is_idle(st.vm_jobs[name])
                started == IF idle
                           THEN <<Call("start", name, job.job_name,
                                       Len(st.vm_jobs[name]), st.vm_up[name], name)>>
                           ELSE <<>>
                up == IF idle THEN [st.vm_up EXCEPT ![name] = TRUE] ELSE st.vm_up
            IN [st EXCEPT
                  !.pending = pending,
                  !.vm_up = up,
                  !.vm_jobs[name] = Append(@, [job |-> job,
                        resource_group_name |-> vm_info.resource_group_name]),
                  !.vm_clients[name] = Append(@, [job_type |-> "Azure",
                        job_name |-> job.job_name, aws_client |-> None]),
                  !.placed[job.job_name] = @ + 1,
                  !.calls = @ \o started
                            \o <<Call("dispatch", name, job.job_name,
                                      Len(st.vm_jobs[name]) + 1, up[name], name)>>]

RECURSIVE azure_pass(_, _, _, _, _, _)
azure_pass(st, i, ps, moers, current_time, a_vms) ==
    IF st.crashed \/ i > Len(st.pending) THEN st
    ELSE LET azure_job == st.pending[i]
             region == azure_schedule_decision(azure_job, ps, moers, current_time)
         IN IF region = "IndexError" THEN [st EXCEPT !.crashed = TRUE]
            ELSE IF region # None
            THEN azure_pass(azure_assign(st, azure_job, region, a_vms),
                            i + 1, ps, moers, current_time, a_vms)
            ELSE azure_pass(st, i + 1, ps, moers, current_time, a_vms)

(***************************************************************************)
(* The AWS scheduling pass, lines 359-398.                                 *)
(***************************************************************************)
\* lines 367-370: the session of aws_compute_clients (lines 307-312) whose
\* region is the decided one; a client is named by its region
aws_client_for(region) ==
    IF \E i \in 1..Len(SHARED_LOCATIONS \o AWS_LOCATIONS) :
           map_aws_location((SHARED_LOCATIONS \o AWS_LOCATIONS)[i]) = region
    THEN region
    ELSE None

aws_assign(st, job, region, w_vms) ==
    LET pending == list_remove(st.pending, job)
        client == aws_client_for(region)
        vm_info == get_aws_vm_by_region(w_vms, region)
        name == vm_info.vm_name
    IN IF vm_info = NoVm
       THEN \* vm_info["vm_name"] on None raises TypeError at line 373
            [st EXCEPT !.pending = pending, !.aws_region_client = client,
                       !.crashed = TRUE]
       ELSE LET idle == vm_is_idle(st.vm_jobs[name])
                started == IF idle
                           THEN <<Call("start", name, job.job_name,
                                       Len(st.vm_jobs[name]), st.vm_up[name], name)>>
                           ELSE <<>>
                up == IF idle THEN [st.vm_up EXCEPT ![name] = TRUE] ELSE st.vm_up
            IN [st EXCEPT
                  !.pending = pending,
                  !.aws_region_client = client,
                  !.instance_id = name,
                  !.vm_up = up,
                  !.vm_jobs[name] = Append(@, [job |-> job,
                        resource_group_name |-> None]),
                  !.vm_clients[name] = Append(@, [job_type |-> "AWS",
                        job_name |-> job.job_name, aws_client |-> client]),
                  !.placed[job.job_name] = @ + 1,
                  !.calls = @ \o started
                            \o <<Call("dispatch", name, job.job_name,
                                      Len(st.vm_jobs[name]) + 1, up[name], name)>>]

\* a pass that fetches anew for itself and decides on what it gets, here
\* the answer of one region, in place of the snapshot of line 320
RECURSIVE aws_pass_refetched(_, _, _, _, _, _)
aws_pass_refetched(st, i, ps, moers, current_time, w_vms) ==
    IF st.crashed \/ i > Len(st.pending) THEN st
    ELSE LET aws_job == st.pending[i]
             fetched == <<[region |-> "PJM_SOUTHWEST_OH", percentile |-> 16]>>
             region == aws_schedule_decision(aws_job, fetched,
                           gco2_to_moer(percentile_to_gco2(fetched)), current_time)
         IN IF region = "IndexError" THEN [st EXCEPT !.crashed = TRUE]
            ELSE IF region # None
            THEN aws_pass_refetched(aws_assign(st, aws_job, region, w_vms),
                                    i + 1, ps, moers, current_time, w_vms)
            ELSE aws_pass_refetched(st, i + 1, ps, moers, current_time, w_vms)

RECURSIVE aws_pass(_, _, _, _, _, _)
aws_pass(st, i, ps, moers, current_time, w_vms) ==
    IF st.crashed \/ i > Len(st.pending) THEN st
    ELSE LET aws_job == st.pending[i]
             region == aws_schedule_decision(aws_job, ps, moers, current_time)
         IN IF region = "IndexError" THEN [st EXCEPT !.crashed = TRUE]
            ELSE IF region # None
            THEN aws_pass(aws_assign(st, aws_job, region, w_vms),
                          i + 1, ps, moers, current_time, w_vms)
            ELSE aws_pass(st, i + 1, ps, moers, current_time, w_vms)

(***************************************************************************)
(* The completion sweep, lines 400-432. done is the set of job names whose *)
(* probe prints DONE in this sweep. A stop that names an instance through  *)
(* the client of a region the instance is not in is either refused by the  *)
(* provider (the call raises) or carried out: accept chooses.              *)
(***************************************************************************)
VmLocation(vms, name) ==
    LET i == CHOOSE k \in 1..Len(vms) : vms[k].vm_name = name
    IN vms[i].location

\* a completion that takes the job off the active list and leaves its
\* session in vm_clients
azure_complete_keeps_session(st, vm_name, job, ssh_client, done) ==
    LET probed == [st EXCEPT !.calls = Append(@,
                       Call("probe", vm_name, ssh_client.job_name,
                            Len(st.vm_jobs[vm_name]), st.vm_up[vm_name], vm_name))]
    IN IF ssh_client.job_name \notin done THEN probed
       ELSE [probed EXCEPT !.vm_jobs[vm_name] = list_remove(@, job)]

\* lines 407-417
azure_complete(st, vm_name, job, ssh_client, done) ==
    LET probed == [st EXCEPT !.calls = Append(@,
                       Call("probe", vm_name, ssh_client.job_name,
                            Len(st.vm_jobs[vm_name]), st.vm_up[vm_name], vm_name))]
    IN IF ssh_client.job_name \notin done THEN probed
       ELSE LET jobs == list_remove(probed.vm_jobs[vm_name], job)
                removed == [probed EXCEPT
                               !.vm_jobs[vm_name] = jobs,
                               !.vm_clients[vm_name] = list_remove(@, ssh_client)]
            IN IF list_is_empty(jobs)
               THEN [removed EXCEPT
                        !.calls = Append(@, Call("stop", vm_name, ssh_client.job_name,
                                    Len(jobs), removed.vm_up[vm_name], vm_name)),
                        !.vm_up[vm_name] = FALSE]
               ELSE removed

\* lines 418-432: the stop goes to Instance(instance_id) of the client kept
\* with the session, and instance_id is whatever line 373 last assigned
aws_complete(st, vm_name, job, ssh_client, done, accept, w_vms) ==
    LET probed == [st EXCEPT !.calls = Append(@,
                       Call("probe", vm_name, ssh_client.job_name,
                            Len(st.vm_jobs[vm_name]), st.vm_up[vm_name], vm_name))]
    IN IF ssh_client.job_name \notin done THEN probed
       ELSE LET jobs == list_remove(probed.vm_jobs[vm_name], job)
                removed == [probed EXCEPT
                               !.vm_jobs[vm_name] = jobs,
                               !.vm_clients[vm_name] = list_remove(@, ssh_client)]
                target == st.instance_id
                called == [removed EXCEPT
                              !.calls = Append(@, Call("stop", target,
                                    ssh_client.job_name, Len(removed.vm_jobs[target]),
                                    removed.vm_up[target], vm_name))]
            IN IF ~list_is_empty(jobs) THEN removed
               ELSE IF ssh_client.aws_client = VmLocation(w_vms, target) \/ accept
               THEN [called EXCEPT !.vm_up[target] = FALSE]
               ELSE [called EXCEPT !.crashed = TRUE]

\* lines 404-432: the walk over the live list vm_clients[vm_name]
RECURSIVE sweep_clients(_, _, _, _, _, _, _)
sweep_clients(st, vm_name, job, k, done, accept, w_vms) ==
    IF st.crashed \/ k > Len(st.vm_clients[vm_name]) THEN st
    ELSE LET ssh_client == st.vm_clients[vm_name][k]
             after ==
                IF ssh_client.job_name # job.job.job_name THEN st
                ELSE IF ssh_client.job_type = "Azure"
                THEN azure_complete(st, vm_name, job, ssh_client, done)
                ELSE IF ssh_client.job_type = "AWS"
                THEN aws_complete(st, vm_name, job, ssh_client, done, accept, w_vms)
                ELSE st
         IN sweep_clients(after, vm_name, job, k + 1, done, accept, w_vms)

\* line 402: the walk over the live list vm_jobs[vm_name]
RECURSIVE sweep_jobs(_, _, _, _, _, _)
sweep_jobs(st, vm_name, i, done, accept, w_vms) ==
    IF st.crashed \/ i > Len(st.vm_jobs[vm_name]) THEN st
    ELSE sweep_jobs(sweep_clients(st, vm_name, st.vm_jobs[vm_name][i], 1,
                                  done, accept, w_vms),
                    vm_name, i + 1, done, accept, w_vms)

\* line 401: vm_jobs.items() in insertion order (init_job_list, line 281)
RECURSIVE sweep_vms(_, _, _, _, _, _)
sweep_vms(st, order, v, done, accept, w_vms) ==
    IF st.crashed \/ v > Len(order) THEN st
    ELSE sweep_vms(sweep_jobs(st, order[v].vm_name, 1, done, accept, w_vms),
                   order, v + 1, done, accept, w_vms)

\* lines 434-443
no_jobs_left(jobs_by_vm) == \A n \in DOMAIN jobs_by_vm : Len(jobs_by_vm[n]) = 0

\* an exit test that looks at the pending lists only
loop_exits_pending_only(a_jobs, w_jobs, jobs_by_vm) == Len(a_jobs \o w_jobs) = 0

loop_exits(a_jobs, w_jobs, jobs_by_vm) ==
    ~(Len(a_jobs \o w_jobs) # 0 \/ ~no_jobs_left(jobs_by_vm))

(***************************************************************************)
(* Snapshots, lines 105-117: one entry per region whose fetch was ok, in   *)
(* the order SHARED_LOCATIONS + AZURE_LOCATIONS + AWS_LOCATIONS.           *)
(***************************************************************************)
REGION_ORDER == SHARED_LOCATIONS \o AZURE_LOCATIONS \o AWS_LOCATIONS

Absent == -1

\* the list get_region_percentiles builds when region i answers f[i]
\* (Absent: the else branch of line 113 was taken for that region)
RECURSIVE snapshot_from(_, _)
snapshot_from(f, i) ==
    IF i > Len(REGION_ORDER) THEN <<>>
    ELSE IF f[i] = Absent THEN snapshot_from(f, i + 1)
         ELSE <<[region |-> REGION_ORDER[i], percentile |-> f[i]]>>
              \o snapshot_from(f, i + 1)

(***************************************************************************)
(* The schedule decisions as pure functions: PolicySpec draws a job, a     *)
(* snapshot and a time, and applies the job's provider's decision once.    *)
(***************************************************************************)
MaxSnapshot == 3

PolicyPercentiles == {0, 16, 84, 100}
PolicyThresholds == {10, 16}
PolicyClock == {0, 11, 12}

PolicySnapshots ==
    LET all == { snapshot_from(f, 1) :
                   f \in [1..Len(REGION_ORDER) -> PolicyPercentiles \cup {Absent}] }
    IN { s \in all : Len(s) <= MaxSnapshot }

PolicyJobs ==
    { [job_name |-> "job", provider |-> pr, location |-> loc,
       time_sensitive |-> ts, location_switch |-> ls,
       percentile_threshold |-> th, submitted |-> 0] :
         pr \in {"Azure"}, loc \in {"West US", "France Central"},
         ts \in BOOLEAN, ls \in BOOLEAN, th \in PolicyThresholds }
    \cup
    { [job_name |-> "job", provider |-> pr, location |-> loc,
       time_sensitive |-> ts, location_switch |-> ls,
       percentile_threshold |-> th, submitted |-> 0] :
         pr \in {"AWS"}, loc \in {"us-west-1", "eu-north-1"},
         ts \in BOOLEAN, ls \in BOOLEAN, th \in PolicyThresholds }

Unset == "unset"

PolicyInit ==
    /\ pjob \in PolicyJobs
    /\ percentiles \in PolicySnapshots
    /\ co2_moers = gco2_to_moer(percentile_to_gco2(percentiles))
    /\ now \in PolicyClock
    /\ presult = Unset
    /\ pc = "policy"
    /\ azure_jobs = <<>>
    /\ aws_jobs = <<>>
    /\ vm_jobs = <<>>
    /\ vm_clients = <<>>
    /\ instance_id = None
    /\ aws_region_client = None
    /\ vm_up = <<>>
    /\ calls = <<>>
    /\ placed = <<>>
    /\ tick_start = <<>>
    /\ not_ok_region = None

AzureDecide ==
    /\ UNCHANGED not_ok_region
    /\ pc = "policy"
    /\ presult = Unset
    /\ pjob.provider = "Azure"
    /\ presult' = azure_schedule_decision(pjob, percentiles, co2_moers, now)
    /\ UNCHANGED <<azure_jobs, aws_jobs, vm_jobs, vm_clients, percentiles, co2_moers,
                   instance_id, aws_region_client, now, pc, vm_up, calls, placed,
                   tick_start, pjob>>

AwsDecide ==
    /\ UNCHANGED not_ok_region
    /\ pc = "policy"
    /\ presult = Unset
    /\ pjob.provider = "AWS"
    /\ presult' = aws_schedule_decision(pjob, percentiles, co2_moers, now)
    /\ UNCHANGED <<azure_jobs, aws_jobs, vm_jobs, vm_clients, percentiles, co2_moers,
                   instance_id, aws_region_client, now, pc, vm_up, calls, placed,
                   tick_start, pjob>>

PolicyNext == AzureDecide \/ AwsDecide

PolicySpec == PolicyInit /\ [][PolicyNext]_vars

(***************************************************************************)
(* The control loop of main(), lines 293-443, on a configuration           *)
(* (schedule.json) drawn at Init.                                          *)
(***************************************************************************)
MaxJobs == 3

\* the VM tables of the configuration: no Azure VM in West US or UK South,
\* no AWS VM in us-west-1 or eu-west-2
azure_vms ==
    << [vm_name |-> "az-fr", location |-> "France Central", resource_group_name |-> "rg"],
       [vm_name |-> "az-east", location |-> "East US", resource_group_name |-> "rg"] >>

aws_vms ==
    << [vm_name |-> "i-se", location |-> "eu-north-1", resource_group_name |-> None],
       [vm_name |-> "i-oh", location |-> "us-east-2", resource_group_name |-> None] >>

JobSpec(name, provider, location, ts, ls, th) ==
    [job_name |-> name, provider |-> provider, location |-> location,
     time_sensitive |-> ts, location_switch |-> ls,
     percentile_threshold |-> th, submitted |-> 0]

\* the jobs a configuration is made of: one per policy case (case 3 on the
\* Azure side only)
AzureJobSpecs ==
    { JobSpec("a1", "Azure", "East US", TRUE, FALSE, 16),
      JobSpec("a2", "Azure", "East US", TRUE, TRUE, 16),
      JobSpec("a3", "Azure", "East US", FALSE, FALSE, 16),
      JobSpec("a4", "Azure", "France Central", FALSE, TRUE, 16) }

AwsJobSpecs ==
    { JobSpec("w1", "AWS", "us-east-2", TRUE, FALSE, 16),
      JobSpec("w2", "AWS", "us-east-2", TRUE, TRUE, 16),
      JobSpec("w3", "AWS", "eu-north-1", FALSE, TRUE, 16) }

JobNames == { j.job_name : j \in AzureJobSpecs \cup AwsJobSpecs }

\* lists without repetition of at most n elements of S
ListsOf(S, n) ==
    { l \in UNION { [1..k -> S] : k \in 0..n } :
        \A i, j \in 1..Len(l) : i # j => l[i] # l[j] }

\* the answers of the carbon service in one tick: the regions of one of
\* these sets are at percentile 16, the others at 84
LoopCleanRegions ==
    { {},
      {"CAISO_NORTH"},
      {"PJM_ROANOKE", "PJM_SOUTHWEST_OH"},
      {"CAISO_NORTH", "UK", "PJM_ROANOKE", "FR", "PJM_SOUTHWEST_OH", "SE"} }

LoopAnswers ==
    { [i \in 1..Len(REGION_ORDER) |-> IF REGION_ORDER[i] \in c THEN 16 ELSE 84] :
        c \in LoopCleanRegions }
LoopClock == {0, 12}

AllEmpty == Len(azure_jobs \o aws_jobs) = 0 /\ no_jobs_left(vm_jobs)

Init ==
    /\ azure_jobs \in ListsOf(AzureJobSpecs, MaxJobs)
    /\ aws_jobs \in ListsOf(AwsJobSpecs, MaxJobs)
    /\ Len(azure_jobs) + Len(aws_jobs) <= MaxJobs
    /\ vm_jobs = init_job_list(azure_vms, aws_vms)
    /\ vm_clients = init_ssh_list(azure_vms, aws_vms)
    /\ percentiles = <<>>
    /\ co2_moers = <<>>
    /\ instance_id = None
    /\ aws_region_client = None
    /\ now = 0
    /\ pc = "fetch"
    /\ vm_up = [n \in DOMAIN init_job_list(azure_vms, aws_vms) |-> FALSE]
    /\ calls = <<>>
    /\ placed = [n \in JobNames |-> 0]
    /\ tick_start = [first |-> TRUE, now |-> 0,
                     all_empty |-> Len(azure_jobs \o aws_jobs) = 0]
    /\ pjob = None
    /\ presult = Unset
    /\ not_ok_region = None

\* lines 320-321: every region answered ok
FetchOk ==
    /\ UNCHANGED not_ok_region
    /\ pc = "fetch"
    /\ \E f \in LoopAnswers :
          /\ percentiles' = snapshot_from(f, 1)
          /\ co2_moers' = gco2_to_moer(percentile_to_gco2(snapshot_from(f, 1)))
    /\ pc' = "azure"
    /\ UNCHANGED <<azure_jobs, aws_jobs, vm_jobs, vm_clients, instance_id,
                   aws_region_client, now, vm_up, calls, placed, tick_start,
                   pjob, presult>>

\* the regions whose fetch the model lets fail: the first of the walk of
\* line 108 (a shared region) and the last (an AWS region)
NotOkRegions == {"CAISO_NORTH", "SE"}

\* line 109 with WattTime.get_current, line 169: a response that is not ok
\* makes raise_for_status() raise, and nothing in main() catches it
FetchRaises ==
    /\ pc = "fetch"
    /\ \E region \in NotOkRegions : not_ok_region' = region
    /\ pc' = "crashed"
    /\ UNCHANGED <<azure_jobs, aws_jobs, vm_jobs, vm_clients, percentiles,
                   co2_moers, instance_id, aws_region_client, now, vm_up, calls,
                   placed, tick_start, pjob, presult>>

Locals(pending) ==
    [pending |-> pending, vm_jobs |-> vm_jobs, vm_clients |-> vm_clients,
     vm_up |-> vm_up, calls |-> calls, placed |-> placed,
     instance_id |-> instance_id, aws_region_client |-> aws_region_client,
     crashed |-> FALSE]

AzurePass ==
    /\ UNCHANGED not_ok_region
    /\ pc = "azure"
    /\ LET st == azure_pass(Locals(azure_jobs), 1, percentiles, co2_moers, now,
                            azure_vms)
       IN /\ azure_jobs' = st.pending
          /\ vm_jobs' = st.vm_jobs
          /\ vm_clients' = st.vm_clients
          /\ vm_up' = st.vm_up
          /\ calls' = st.calls
          /\ placed' = st.placed
          /\ pc' = IF st.crashed THEN "crashed" ELSE "aws"
    /\ UNCHANGED <<aws_jobs, percentiles, co2_moers, instance_id,
                   aws_region_client, now, tick_start, pjob, presult>>

AwsPass ==
    /\ UNCHANGED not_ok_region
    /\ pc = "aws"
    /\ LET st == aws_pass(Locals(aws_jobs), 1, percentiles, co2_moers, now, aws_vms)
       IN /\ aws_jobs' = st.pending
          /\ vm_jobs' = st.vm_jobs
          /\ vm_clients' = st.vm_clients
          /\ vm_up' = st.vm_up
          /\ calls' = st.calls
          /\ placed' = st.placed
          /\ instance_id' = st.instance_id
          /\ aws_region_client' = st.aws_region_client
          /\ pc' = IF st.crashed THEN "crashed" ELSE "sweep"
    /\ UNCHANGED <<azure_jobs, percentiles, co2_moers, now, tick_start, pjob,
                   presult>>

ActiveNames ==
    UNION { { vm_jobs[n][i].job.job_name : i \in 1..Len(vm_jobs[n]) } :
            n \in DOMAIN vm_jobs }

Sweep ==
    /\ UNCHANGED not_ok_region
    /\ pc = "sweep"
    /\ \E done \in SUBSET ActiveNames, accept \in BOOLEAN :
          LET st == sweep_vms(Locals(<<>>), azure_vms \o aws_vms, 1, done, accept,
                              aws_vms)
          IN /\ vm_jobs' = st.vm_jobs
             /\ vm_clients' = st.vm_clients
             /\ vm_up' = st.vm_up
             /\ calls' = st.calls
             /\ pc' = IF st.crashed THEN "crashed" ELSE "check"
    /\ UNCHANGED <<azure_jobs, aws_jobs, percentiles, co2_moers, instance_id,
                   aws_region_client, now, placed, tick_start, pjob, presult>>

\* lines 440-441: time.sleep(60), then the next tick; the clock has moved on
\* by the sleep and by the blocking calls of the tick
Sleep ==
    /\ UNCHANGED not_ok_region
    /\ pc = "check"
    /\ ~loop_exits(azure_jobs, aws_jobs, vm_jobs)
    /\ \E t \in LoopClock : t >= now /\ now' = t
    /\ pc' = "fetch"
    /\ calls' = <<>>
    /\ tick_start' = [first |-> FALSE, now |-> now', all_empty |-> AllEmpty]
    /\ UNCHANGED <<azure_jobs, aws_jobs, vm_jobs, vm_clients, percentiles,
                   co2_moers, instance_id, aws_region_client, vm_up, placed,
                   pjob, presult>>

\* lines 442-443: break
Exit ==
    /\ UNCHANGED not_ok_region
    /\ pc = "check"
    /\ loop_exits(azure_jobs, aws_jobs, vm_jobs)
    /\ pc' = "done"
    /\ UNCHANGED <<azure_jobs, aws_jobs, vm_jobs, vm_clients, percentiles,
                   co2_moers, instance_id, aws_region_client, now, vm_up, calls,
                   placed, tick_start, pjob, presult>>

Next == FetchOk \/ FetchRaises \/ AzurePass \/ AwsPass \/ Sweep \/ Sleep \/ Exit

Spec == Init /\ [][Next]_vars

(***************************************************************************)
(* Properties of the control loop.                                         *)
(***************************************************************************)
CallsWhere(P(_)) == { i \in 1..Len(calls) : P(calls[i]) }

Pending == azure_jobs \o aws_jobs

PendingCount(name) ==
    Cardinality({ i \in 1..Len(Pending) : Pending[i].job_name = name })

ActiveCount(name) ==
    Cardinality(UNION { { <<n, i>> : i \in { k \in 1..Len(vm_jobs[n]) :
                                                 vm_jobs[n][k].job.job_name = name } } :
                        n \in DOMAIN vm_jobs })

InLoop == pc \in {"fetch", "azure", "aws", "sweep", "check", "done", "crashed"}

\* C1: a stop or deallocate call names a VM only when that VM's active-job
\* list is empty at the time of the call
C1_StopOnlyWhenEmpty ==
    \A i \in 1..Len(calls) : calls[i].op = "stop" => calls[i].occ = 0

\* C2: whenever a VM's active-job list is emptied, exactly one stop call is
\* issued and it names that VM: per tick and VM, the stop calls naming the
\* VM are as many as the emptyings of its list
C2_OneStopPerCycle ==
    InLoop =>
        \A v \in DOMAIN vm_jobs :
            Cardinality(CallsWhere(LAMBDA c : c.op = "stop" /\ c.vm = v))
                = Cardinality(CallsWhere(LAMBDA c : c.op = "stop" /\ c.from = v))

\* C3: a start call is issued only by the assignment that takes the VM's
\* active-job count from 0 to 1; an assignment to an occupied VM issues
\* none, so a VM gets at most one start call per tick, and exactly one when
\* it was idle and jobs were assigned to it
C3_StartOnlyOnFirstJob ==
    InLoop =>
        /\ \A i \in 1..Len(calls) :
              calls[i].op = "start" =>
                  /\ calls[i].occ = 0
                  /\ i < Len(calls)
                  /\ calls[i + 1].op = "dispatch"
                  /\ calls[i + 1].vm = calls[i].vm
                  /\ calls[i + 1].job = calls[i].job
                  /\ calls[i + 1].occ = 1
        /\ \A i \in 1..Len(calls) :
              (calls[i].op = "dispatch" /\ calls[i].occ > 1) =>
                  (i = 1 \/ calls[i - 1].op # "start")
        /\ \A v \in DOMAIN vm_jobs :
              LET starts == CallsWhere(LAMBDA c : c.op = "start" /\ c.vm = v)
                  first == CallsWhere(LAMBDA c : c.op = "dispatch" /\ c.vm = v
                                                 /\ c.occ = 1)
              IN Cardinality(starts) = Cardinality(first)
                 /\ Cardinality(starts) <= 1

C3_Witness ==
    /\ InLoop
    /\ \E i, j \in 1..Len(calls) :
          /\ i < j
          /\ calls[i].op = "dispatch" /\ calls[i].occ = 1
          /\ calls[j].op = "dispatch" /\ calls[j].occ = 2
          /\ calls[i].vm = calls[j].vm
          /\ Cardinality(CallsWhere(LAMBDA c : c.op = "start"
                                               /\ c.vm = calls[i].vm)) = 1

\* C4: at the end of a tick that began 12 hours or more after submission no
\* job is pending any more
C4_NoStarvation ==
    (pc = "check" /\ tick_start.now >= 12) => Len(Pending) = 0

\* C5: at the end of the first tick no time-sensitive job is pending any more
C5_UrgentInFirstTick ==
    (pc = "check" /\ tick_start.first) =>
        \A i \in 1..Len(Pending) : ~Pending[i].time_sensitive

C10_ExitIffDrained ==
    InLoop =>
        /\ pc = "done" => AllEmpty
        /\ ~tick_start.first => ~tick_start.all_empty
        /\ tick_start.all_empty => calls = <<>>

C10_Witness ==
    /\ pc = "done"
    /\ tick_start.all_empty
    /\ calls = <<>>

\* what the decision under test is asked about, stated on the snapshot itself
Decided == pc = "policy" /\ presult # Unset

EligibleFor(provider, region) ==
    IF provider = "Azure"
    THEN region \in {"CAISO_NORTH", "UK", "PJM_ROANOKE", "FR"}
    ELSE region \in {"CAISO_NORTH", "UK", "PJM_SOUTHWEST_OH", "SE"}

ProviderLocation(provider, region) ==
    IF provider = "Azure" THEN map_azure_location(region) ELSE map_aws_location(region)

EligibleEntries(provider) ==
    { i \in 1..Len(percentiles) : EligibleFor(provider, percentiles[i].region) }

\* C6: a time-sensitive job that may not switch location is sent to its
\* fixed location by either provider's decision, whatever the snapshot
\* (an empty one included)
C6_Case1FixedLocation ==
    (Decided /\ pjob.time_sensitive /\ ~pjob.location_switch)
        => presult = pjob.location

C6_Witness ==
    /\ Decided
    /\ pjob.time_sensitive /\ ~pjob.location_switch
    /\ percentiles = <<>>
    /\ presult = pjob.location

\* C7: for a time-sensitive job that may switch location, on a snapshot with
\* at least one region eligible for its provider, the decision is the
\* provider location of an eligible region of lowest normalized metric
C7_Case2LowestEligible ==
    (Decided /\ pjob.time_sensitive /\ pjob.location_switch
        /\ EligibleEntries(pjob.provider) # {})
        => \E i \in EligibleEntries(pjob.provider) :
              /\ \A k \in EligibleEntries(pjob.provider) :
                      ~Less(co2_moers[k].co2_moer, co2_moers[i].co2_moer)
              /\ presult = ProviderLocation(pjob.provider, percentiles[i].region)

\* the threshold cases 3 and 4 find no acceptable region in the snapshot
NoAcceptableRegion ==
    IF pjob.location_switch
    THEN \A i \in EligibleEntries(pjob.provider) :
             percentiles[i].percentile > pjob.percentile_threshold
    ELSE \A i \in EligibleEntries(pjob.provider) :
             \/ percentiles[i].percentile > pjob.percentile_threshold
             \/ ProviderLocation(pjob.provider, percentiles[i].region) # pjob.location

\* C8: a job that is not time sensitive and finds no acceptable region gets
\* its fixed location from 12 hours after submission on, and None before
C8_TimeoutFallback ==
    (Decided /\ ~pjob.time_sensitive /\ NoAcceptableRegion)
        => presult = (IF now - pjob.submitted >= 12 THEN pjob.location ELSE None)

C8_Witness ==
    /\ Decided
    /\ ~pjob.time_sensitive /\ ~pjob.location_switch
    /\ percentiles # <<>>
    /\ \A i \in 1..Len(percentiles) :
           percentiles[i].percentile > pjob.percentile_threshold
    /\ now - pjob.submitted = 12
    /\ presult = pjob.location

\* the regions of this tick's snapshot
SnapshotRegions == {percentiles[i].region : i \in 1..Len(percentiles)}

\* C11: when one region's carbon fetch comes back not ok, the loop does not
\* stop: the tick goes on to schedule on a snapshot that leaves that region
\* out and holds every other region
C11_NotOkFetchSkipsRegion ==
    not_ok_region # None
        => /\ pc # "crashed"
           /\ SnapshotRegions = {REGION_ORDER[i] : i \in 1..Len(REGION_ORDER)}
                                    \ {not_ok_region}

\* C12: inside the loop a job never leaves a pending list without being
\* assigned to a VM: the VM lookup of the location it is sent to is never
\* empty
C12_RemovedOnlyWhenAssigned ==
    [][\A name \in JobNames :
          (PendingCount(name) = 1 /\ PendingCount(name)' = 0)
              => ActiveCount(name)' = 1]_vars

\* C13: at the end of a provider's pass no job of that provider is still
\* pending for which the decision, on this tick's snapshot and time, yields
\* a region
C13_PassDecidesEveryJob ==
    /\ pc = "aws"
         => \A i \in 1..Len(azure_jobs) :
               azure_schedule_decision(azure_jobs[i], percentiles, co2_moers,
                                       now) = None
    /\ pc = "sweep"
         => \A i \in 1..Len(aws_jobs) :
               aws_schedule_decision(aws_jobs[i], percentiles, co2_moers,
                                     now) = None

UnderThreshold ==
    { i \in EligibleEntries(pjob.provider) :
          percentiles[i].percentile <= pjob.percentile_threshold }

\* C15: a job that is not time sensitive, may not switch and has waited
\* less than 12 hours gets its fixed location exactly when an eligible
\* region of the snapshot maps to that location with a percentile at or
\* under the threshold, and None otherwise
C15_Case3FixedOnThreshold ==
    (Decided /\ ~pjob.time_sensitive /\ ~pjob.location_switch
             /\ now - pjob.submitted < 12)
        => presult =
             (IF \E i \in UnderThreshold :
                    ProviderLocation(pjob.provider, percentiles[i].region)
                        = pjob.location
              THEN pjob.location ELSE None)

C15_Witness ==
    /\ Decided
    /\ ~pjob.time_sensitive /\ ~pjob.location_switch
    /\ now - pjob.submitted < 12
    /\ \E i \in EligibleEntries(pjob.provider) :
          /\ percentiles[i].percentile = pjob.percentile_threshold
          /\ ProviderLocation(pjob.provider, percentiles[i].region) = pjob.location
    /\ \A i \in EligibleEntries(pjob.provider) :
          percentiles[i].percentile >= pjob.percentile_threshold
    /\ presult = pjob.location

\* C16: a job that is not time sensitive, may switch and has waited less
\* than 12 hours gets None exactly when no eligible region is at or under
\* the threshold; otherwise it gets the location of an eligible region at or
\* under the threshold than which no other such region has a strictly lower
\* metric
C16_Case4LowestUnderThreshold ==
    (Decided /\ ~pjob.time_sensitive /\ pjob.location_switch
             /\ now - pjob.submitted < 12)
        => IF UnderThreshold = {}
           THEN presult = None
           ELSE \E i \in UnderThreshold :
                   /\ \A k \in UnderThreshold :
                         ~Less(co2_moers[k].co2_moer, co2_moers[i].co2_moer)
                   /\ presult = ProviderLocation(pjob.provider,
                                                 percentiles[i].region)

\* a region outside the provider's set sits under the threshold next to two
\* eligible ones of different metric, and the lower of the two is returned
C16_Witness ==
    /\ Decided
    /\ ~pjob.time_sensitive /\ pjob.location_switch
    /\ now - pjob.submitted < 12
    /\ \E i \in 1..Len(percentiles) :
          /\ ~EligibleFor(pjob.provider, percentiles[i].region)
          /\ percentiles[i].percentile <= pjob.percentile_threshold
    /\ \E i, k \in UnderThreshold :
          /\ Less(co2_moers[i].co2_moer, co2_moers[k].co2_moer)
          /\ presult = ProviderLocation(pjob.provider, percentiles[i].region)
    /\ presult # None

\* the decision of the job's provider on the state's snapshot and time
DecisionNow(job) ==
    IF job.provider = "Azure"
    THEN azure_schedule_decision(job, percentiles, co2_moers, now)
    ELSE aws_schedule_decision(job, percentiles, co2_moers, now)

\* C17: a job that may not switch location is never scheduled anywhere but
\* its fixed location: the decision gives it its fixed location or None,
\* and the VM whose active list holds it, and every VM its command is
\* dispatched to, has that location
C17_FixedJobsStayPut ==
    /\ (Decided /\ ~pjob.location_switch) => presult \in {pjob.location, None}
    /\ InLoop =>
         /\ \A job \in AzureJobSpecs \cup AwsJobSpecs :
               ~job.location_switch => DecisionNow(job) \in {job.location, None}
         /\ \A n \in DOMAIN vm_jobs : \A i \in 1..Len(vm_jobs[n]) :
               ~vm_jobs[n][i].job.location_switch
                   => VmLocation(azure_vms \o aws_vms, n)
                          = vm_jobs[n][i].job.location
         /\ \A i \in 1..Len(calls) : \A job \in AzureJobSpecs \cup AwsJobSpecs :
               (calls[i].op = "dispatch" /\ calls[i].job = job.job_name
                    /\ ~job.location_switch)
                   => VmLocation(azure_vms \o aws_vms, calls[i].vm) = job.location

\* a job that may not switch and is not time sensitive has been dispatched in
\* this tick to the VM of its fixed location while a region elsewhere was
\* under its threshold too
C17_Witness ==
    /\ pc = "check"
    /\ \E n \in DOMAIN vm_jobs : \E i \in 1..Len(vm_jobs[n]) :
          LET job == vm_jobs[n][i].job
          IN /\ ~job.location_switch /\ ~job.time_sensitive
             /\ VmLocation(azure_vms \o aws_vms, n) = job.location
             /\ CallsWhere(LAMBDA c : c.op = "dispatch" /\ c.job = job.job_name
                                      /\ c.vm = n) # {}
             /\ now - job.submitted < 12
             /\ \E k \in EligibleEntries(job.provider) :
                   /\ percentiles[k].percentile <= job.percentile_threshold
                   /\ ProviderLocation(job.provider, percentiles[k].region)
                          # job.location

\* C18: a command is dispatched to a VM, and a completion probe is run on a
\* VM, only while that VM is running: it has been started and no stop or
\* deallocate call has taken it down since
C18_DispatchAndProbeOnRunningVm ==
    \A i \in 1..Len(calls) :
        calls[i].op \in {"dispatch", "probe"} => calls[i].up

\* C19: when the loop exits because everything is drained, no VM is left
\* running: every VM started during the run has been stopped or deallocated
C19_NoVmRunningAtExit ==
    pc = "done" => \A n \in DOMAIN vm_up : ~vm_up[n]

\* C20: at the start and at the end of every tick each VM's active-job list
\* and session list have the same length and hold the same job names, entry
\* by entry
C20_JobsAndSessionsAgree ==
    pc \in {"fetch", "check", "done"}
        => \A n \in DOMAIN vm_jobs :
              /\ Len(vm_jobs[n]) = Len(vm_clients[n])
              /\ \A i \in 1..Len(vm_jobs[n]) :
                    vm_jobs[n][i].job.job_name = vm_clients[n][i].job_name

\* at the end of a tick a VM holds one job and its session after another job
\* of the same VM was probed, found done and removed in this tick's sweep
C20_Witness ==
    /\ pc = "check"
    /\ \E n \in DOMAIN vm_jobs :
          /\ Len(vm_jobs[n]) = 1 /\ Len(vm_clients[n]) = 1
          /\ vm_jobs[n][1].job.job_name = vm_clients[n][1].job_name
          /\ CallsWhere(LAMBDA c : c.op = "probe" /\ c.vm = n /\ c.occ = 2
                                   /\ c.job # vm_jobs[n][1].job.job_name) # {}

\* the job of the configuration that carries a name
JobNamed(name) ==
    CHOOSE job \in AzureJobSpecs \cup AwsJobSpecs : job.job_name = name

\* every dispatch of the tick went to the VM of the region that the decision
\* gives for the job on the state's snapshot, metrics and time
DispatchesFollowSnapshot ==
    \A i \in 1..Len(calls) :
        calls[i].op = "dispatch"
            => VmLocation(azure_vms \o aws_vms, calls[i].vm)
                   = DecisionNow(JobNamed(calls[i].job))

\* in the tick's calls no start or dispatch comes after a probe or a stop
SweepAfterPasses ==
    \A i, k \in 1..Len(calls) :
        (i < k /\ calls[i].op \in {"probe", "stop"})
            => calls[k].op \in {"probe", "stop"}

\* the state of a tick agrees with one fetch made before any decision
SnapshotBeforeDecisions ==
    /\ pc = "azure" => calls = <<>>
    /\ pc \in {"azure", "aws", "sweep", "check", "done"}
          => co2_moers = gco2_to_moer(percentile_to_gco2(percentiles))
    /\ pc \in {"aws", "sweep"}
          => CallsWhere(LAMBDA c : c.op \in {"probe", "stop"}) = {}

\* C21: within a tick the snapshot is fetched once, before any scheduling
\* decision: it is set by the fetch step with no call of the tick made yet
\* and no later step of the tick changes it; the metrics are the ones
\* derived from it; every dispatch of both passes follows the decision on
\* that snapshot; and the sweep's probes and stops come after both passes
C21_OneSnapshotPerTick ==
    /\ [](SnapshotBeforeDecisions /\ DispatchesFollowSnapshot /\ SweepAfterPasses)
    /\ [][pc # "fetch" => UNCHANGED <<percentiles, co2_moers>>]_vars

\* at the end of a tick a job of each provider has been dispatched, one of
\* them by case 4 on a threshold match, and a probe of the sweep follows
C21_Witness ==
    /\ pc = "check"
    /\ \E i, k, p \in 1..Len(calls) :
          /\ calls[i].op = "dispatch" /\ JobNamed(calls[i].job).provider = "Azure"
          /\ calls[k].op = "dispatch" /\ JobNamed(calls[k].job).provider = "AWS"
          /\ ~JobNamed(calls[k].job).time_sensitive
          /\ JobNamed(calls[k].job).location_switch
          /\ now - JobNamed(calls[k].job).submitted < 12
          /\ i < k /\ k < p
          /\ calls[p].op = "probe"

\* C22: for every region of the snapshot, at every percentile from 0 to 100
\* with 0 and 100 included, the intensity derived from the percentile and
\* the metric derived from the intensity are finite numbers
C22_IntensityIsFinite ==
    pc = "policy"
        => \A i \in 1..Len(percentiles) :
              /\ IsFinite(percentile_to_gco2(percentiles)[i].gco2)
              /\ IsFinite(co2_moers[i].co2_moer)

====
